---- MODULE Spec2Model ----
(***************************************************************************)
(* Configuration validation and decoding of the Prometheus receiver        *)
(* (receiver/prometheusreceiver/config.go).                                *)
(*                                                                         *)
(* Modelling conventions                                                   *)
(*  - a Go pointer is a sequence of length 0 (nil) or 1 (the pointee);     *)
(*  - a Go string that the code inspects character by character (the       *)
(*    target allocator's endpoint and collector id) is a sequence of       *)
(*    one-character strings; a string the code only compares or passes on  *)
(*    (a file path, a label) is a TLA+ string;                             *)
(*  - a Go error is the sequence of the tokens of its message, in the      *)
(*    order fmt.Errorf writes them; the nil error is <<>>;                 *)
(*  - the filesystem is the set of paths on which os.Stat succeeds.        *)
(***************************************************************************)
EXTENDS Integers, Sequences, FiniteSets, TLC

VARIABLES
    cfg,      \* the receiver's Config: PrometheusConfig and TargetAllocator pointers
    fs,       \* the filesystem: the paths that exist
    calls,    \* the Validate calls made so far, each with the filesystem it saw and what it returned
    conf,     \* the confmap.Conf handed to an Unmarshal method, as a string map
    target,   \* the structures Unmarshal decodes into (PromConfig and PromHTTPSDConfig)
    ucall     \* the Unmarshal call made, if any: its method, its error, its unmarshalYAML invocations

vars == <<cfg, fs, calls, conf, target, ucall>>

(***************************************************************************)
(* Bounds of the model.                                                    *)
(***************************************************************************)
\* scrape jobs plus discovery entries in one generated scrape configuration
MaxEntries == 3
\* length of each forbidden-feature list
MaxFeatureLen == 1
\* length of a generated target-allocator endpoint
MaxEndpointLen == 4
\* length of a generated collector id
MaxIDLen == 2
\* Validate calls in one behaviour
MaxCalls == 2

(***************************************************************************)
(* Strings.                                                                *)
(***************************************************************************)
Letters ==
    {"a", "b", "c", "d", "e", "f", "g", "h", "i", "j", "k", "l", "m",
     "n", "o", "p", "q", "r", "s", "t", "u", "v", "w", "x", "y", "z"}

Digits == {"0", "1", "2", "3", "4", "5", "6", "7", "8", "9"}

\* strings.HasPrefix
HasPrefix(s, p) == Len(s) >= Len(p) /\ SubSeq(s, 1, Len(p)) = p

\* strings.Contains
Contains(s, sub) ==
    \E i \in 1..(Len(s) - Len(sub) + 1) : SubSeq(s, i, i + Len(sub) - 1) = sub

\* strings.Index for a one-character needle, 0 when absent (Go: -1)
RECURSIVE IndexFrom(_, _, _)
IndexFrom(s, c, i) ==
    IF i > Len(s) THEN 0
    ELSE IF s[i] = c THEN i
    ELSE IndexFrom(s, c, i + 1)

\* strings.LastIndex for a one-character needle, 0 when absent (Go: -1)
RECURSIVE LastIndexFrom(_, _, _)
LastIndexFrom(s, c, i) ==
    IF i < 1 THEN 0
    ELSE IF s[i] = c THEN i
    ELSE LastIndexFrom(s, c, i - 1)

\* the bytes of the labels, which sort.Strings compares
LabelBytes(s) ==
    CASE s = "remote_write" ->
           <<114, 101, 109, 111, 116, 101, 95, 119, 114, 105, 116, 101>>
      [] s = "remote_read" ->
           <<114, 101, 109, 111, 116, 101, 95, 114, 101, 97, 100>>
      [] s = "rule_files" ->
           <<114, 117, 108, 101, 95, 102, 105, 108, 101, 115>>
      [] s = "alert_config.relabel_configs" ->
           <<97, 108, 101, 114, 116, 95, 99, 111, 110, 102, 105, 103, 46,
             114, 101, 108, 97, 98, 101, 108, 95, 99, 111, 110, 102, 105, 103, 115>>
      [] s = "alert_config.alertmanagers" ->
           <<97, 108, 101, 114, 116, 95, 99, 111, 110, 102, 105, 103, 46,
             97, 108, 101, 114, 116, 109, 97, 110, 97, 103, 101, 114, 115>>

\* byte-wise lexicographic a < b, Go's < on strings
RECURSIVE BytesLess(_, _, _)
BytesLess(a, b, i) ==
    IF i > Len(b) THEN FALSE
    ELSE IF i > Len(a) THEN TRUE
    ELSE IF a[i] < b[i] THEN TRUE
    ELSE IF a[i] > b[i] THEN FALSE
    ELSE BytesLess(a, b, i + 1)

StringLess(x, y) == BytesLess(LabelBytes(x), LabelBytes(y), 1)

\* insertion of x into a sorted sequence
RECURSIVE InsertSorted(_, _)
InsertSorted(x, s) ==
    IF s = <<>> THEN <<x>>
    ELSE IF StringLess(x, Head(s)) THEN <<x>> \o s
    ELSE <<Head(s)>> \o InsertSorted(x, Tail(s))

RECURSIVE SortFrom(_, _)
SortFrom(s, acc) ==
    IF s = <<>> THEN acc ELSE SortFrom(Tail(s), InsertSorted(Head(s), acc))

\* faulty variant: the labels are left in the order they were appended
SortStrings_Unsorted(s) == s

\* sort.Strings
SortStrings(s) == SortFrom(s, <<>>)

(***************************************************************************)
(* Errors.                                                                 *)
(***************************************************************************)
NoError == <<>>

\* errors.New("no Prometheus scrape_configs or target_allocator set")
ErrIncomplete == <<"no Prometheus scrape_configs or target_allocator set">>

\* fmt.Errorf("TargetAllocator endpoint is not valid: %s", cfg.Endpoint)
ErrEndpoint(endpoint) == <<"TargetAllocator endpoint is not valid:">> \o endpoint

\* fmt.Errorf("CollectorID is not a valid ID")
ErrCollectorID == <<"CollectorID is not a valid ID">>

\* fmt.Errorf("unsupported features:\n\t%s", strings.Join(unsupportedFeatures, "\n\t"))
ErrUnsupported(features) == <<"unsupported features:">> \o features

\* the *fs.PathError of a failed os.Stat
ErrStat(fn) == <<"stat", fn, ":", "no such file or directory">>

\* fmt.Errorf("error checking authorization credentials file %q: %w", file, err)
ErrCredentials(fn, err) ==
    <<"error checking authorization credentials file", "\"", fn, "\"", ":">> \o err

\* fmt.Errorf("error checking client cert file %q: %w", tlsConfig.CertFile, err)
ErrCert(fn, err) ==
    <<"error checking client cert file", "\"", fn, "\"", ":">> \o err

\* fmt.Errorf("error checking client key file %q: %w", tlsConfig.KeyFile, err)
ErrKey(fn, err) ==
    <<"error checking client key file", "\"", fn, "\"", ":">> \o err

(***************************************************************************)
(* The file checks.  Each returns its error and the paths it handed to     *)
(* os.Stat, in order.                                                      *)
(***************************************************************************)
\* faulty variant: the file is never stat-checked
checkFile_NoStat(fn, files) == [err |-> NoError, stats |-> <<>>]

checkFile(fn, files) ==
    IF fn = "" THEN [err |-> NoError, stats |-> <<>>]
    ELSE [err |-> IF fn \in files THEN NoError ELSE ErrStat(fn), stats |-> <<fn>>]

\* faulty variant: the key is checked before the certificate
checkTLSConfig_KeyFirst(tlsConfig, files) ==
    LET key == checkFile(tlsConfig.KeyFile, files) IN
    IF key.err # NoError
    THEN [err |-> ErrKey(tlsConfig.KeyFile, key.err), stats |-> key.stats]
    ELSE LET cert == checkFile(tlsConfig.CertFile, files) IN
         IF cert.err # NoError
         THEN [err |-> ErrCert(tlsConfig.CertFile, cert.err),
               stats |-> key.stats \o cert.stats]
         ELSE [err |-> NoError, stats |-> key.stats \o cert.stats]

checkTLSConfig(tlsConfig, files) ==
    LET cert == checkFile(tlsConfig.CertFile, files) IN
    IF cert.err # NoError
    THEN [err |-> ErrCert(tlsConfig.CertFile, cert.err), stats |-> cert.stats]
    ELSE LET key == checkFile(tlsConfig.KeyFile, files) IN
         IF key.err # NoError
         THEN [err |-> ErrKey(tlsConfig.KeyFile, key.err),
               stats |-> cert.stats \o key.stats]
         ELSE [err |-> NoError, stats |-> cert.stats \o key.stats]

\* the credentials-file check of one scrape job
checkAuthorization(sc, files) ==
    IF sc.HTTPClientConfig.Authorization # <<>>
    THEN LET fn == sc.HTTPClientConfig.Authorization[1].CredentialsFile
             r == checkFile(fn, files)
         IN IF r.err # NoError
            THEN [err |-> ErrCredentials(fn, r.err), stats |-> r.stats]
            ELSE r
    ELSE [err |-> NoError, stats |-> <<>>]

\* the type assertion c.(*kubernetes.SDConfig)
IsKubernetesSD(c) == c.kind = "kubernetes"

\* faulty variant: the TLS check is applied to entries of every variant
RECURSIVE checkDiscovery_AllKinds(_, _, _)
checkDiscovery_AllKinds(sds, i, files) ==
    IF i > Len(sds) THEN [err |-> NoError, stats |-> <<>>]
    ELSE LET r == checkTLSConfig(sds[i].HTTPClientConfig.TLSConfig, files) IN
         IF r.err # NoError THEN r
         ELSE LET rest == checkDiscovery_AllKinds(sds, i + 1, files) IN
              [err |-> rest.err, stats |-> r.stats \o rest.stats]

\* the loop over sc.ServiceDiscoveryConfigs, from entry i on
RECURSIVE checkDiscoveryFrom(_, _, _)
checkDiscoveryFrom(sds, i, files) ==
    IF i > Len(sds) THEN [err |-> NoError, stats |-> <<>>]
    ELSE IF IsKubernetesSD(sds[i])
    THEN LET r == checkTLSConfig(sds[i].HTTPClientConfig.TLSConfig, files) IN
         IF r.err # NoError THEN r
         ELSE LET rest == checkDiscoveryFrom(sds, i + 1, files) IN
              [err |-> rest.err, stats |-> r.stats \o rest.stats]
    ELSE checkDiscoveryFrom(sds, i + 1, files)

checkDiscovery_AnyKind(sds, files) == checkDiscovery_AllKinds(sds, 1, files)

\* the loop over sc.ServiceDiscoveryConfigs
checkDiscovery(sds, files) == checkDiscoveryFrom(sds, 1, files)

\* one iteration of the loop over cfg.ScrapeConfigs
checkScrapeConfig(sc, files) ==
    LET auth == checkAuthorization(sc, files) IN
    IF auth.err # NoError THEN auth
    ELSE LET tls == checkTLSConfig(sc.HTTPClientConfig.TLSConfig, files) IN
         IF tls.err # NoError
         THEN [err |-> tls.err, stats |-> auth.stats \o tls.stats]
         ELSE LET sd == checkDiscovery(sc.ServiceDiscoveryConfigs, files) IN
              [err |-> sd.err, stats |-> auth.stats \o tls.stats \o sd.stats]

\* the loop over cfg.ScrapeConfigs, from job i on
RECURSIVE checkScrapeConfigsFrom(_, _, _)
checkScrapeConfigsFrom(scs, i, files) ==
    IF i > Len(scs) THEN [err |-> NoError, stats |-> <<>>]
    ELSE LET r == checkScrapeConfig(scs[i], files) IN
         IF r.err # NoError THEN r
         ELSE LET rest == checkScrapeConfigsFrom(scs, i + 1, files) IN
              [err |-> rest.err, stats |-> r.stats \o rest.stats]

\* the labels appended to unsupportedFeatures, in the order of the five tests
UnsupportedFeatures(c) ==
    (IF Len(c.RemoteWriteConfigs) # 0 THEN <<"remote_write">> ELSE <<>>)
    \o (IF Len(c.RemoteReadConfigs) # 0 THEN <<"remote_read">> ELSE <<>>)
    \o (IF Len(c.RuleFiles) # 0 THEN <<"rule_files">> ELSE <<>>)
    \o (IF Len(c.AlertingConfig.AlertRelabelConfigs) # 0
        THEN <<"alert_config.relabel_configs">> ELSE <<>>)
    \o (IF Len(c.AlertingConfig.AlertmanagerConfigs) # 0
        THEN <<"alert_config.alertmanagers">> ELSE <<>>)

\* faulty variant: the file checks run before the feature check
PromConfigValidate_FilesFirst(c, files) ==
    LET r == checkScrapeConfigsFrom(c.ScrapeConfigs, 1, files)
        unsupportedFeatures == UnsupportedFeatures(c)
    IN IF r.err # NoError THEN r
       ELSE IF Len(unsupportedFeatures) # 0
       THEN [err |-> ErrUnsupported(SortStrings(unsupportedFeatures)), stats |-> r.stats]
       ELSE r

\* (*PromConfig).Validate
PromConfigValidate(c, files) ==
    LET unsupportedFeatures == UnsupportedFeatures(c) IN
    IF Len(unsupportedFeatures) # 0
    THEN [err |-> ErrUnsupported(SortStrings(unsupportedFeatures)), stats |-> <<>>]
    ELSE checkScrapeConfigsFrom(c.ScrapeConfigs, 1, files)

\* faulty variant: either source missing is an error
ConfigValidate_Or(c) ==
    IF (c.PrometheusConfig = <<>> \/ Len(c.PrometheusConfig[1].ScrapeConfigs) = 0)
       \/ c.TargetAllocator = <<>>
    THEN ErrIncomplete
    ELSE NoError

\* (*Config).Validate
ConfigValidate(c) ==
    IF (c.PrometheusConfig = <<>> \/ Len(c.PrometheusConfig[1].ScrapeConfigs) = 0)
       /\ c.TargetAllocator = <<>>
    THEN ErrIncomplete
    ELSE NoError

(***************************************************************************)
(* url.ParseRequestURI, for endpoints over lower-case letters, digits and  *)
(* the characters ":", "/", " ", ".", "-", "+", "*" (no "%", "?", "@",     *)
(* "[" and no control characters: the steps that only those reach are      *)
(* left out).  TRUE when the call returns an error.                        *)
(***************************************************************************)
\* getScheme: the scheme, the rest, and whether it failed
RECURSIVE getScheme(_, _)
getScheme(rawURL, i) ==
    IF i > Len(rawURL) THEN [scheme |-> <<>>, rest |-> rawURL, err |-> FALSE]
    ELSE IF rawURL[i] \in Letters THEN getScheme(rawURL, i + 1)
    ELSE IF rawURL[i] \in Digits \cup {"+", "-", "."}
    THEN IF i = 1 THEN [scheme |-> <<>>, rest |-> rawURL, err |-> FALSE]
         ELSE getScheme(rawURL, i + 1)
    ELSE IF rawURL[i] = ":"
    THEN IF i = 1 THEN [scheme |-> <<>>, rest |-> <<>>, err |-> TRUE]
         ELSE [scheme |-> SubSeq(rawURL, 1, i - 1),
               rest |-> SubSeq(rawURL, i + 1, Len(rawURL)), err |-> FALSE]
    ELSE [scheme |-> <<>>, rest |-> rawURL, err |-> FALSE]

\* validOptionalPort: "" or ":" followed by digits only
validOptionalPort(port) ==
    \/ port = <<>>
    \/ /\ port[1] = ":"
       /\ \A i \in 2..Len(port) : port[i] \in Digits

\* the characters unescape(host, encodeHost) accepts unescaped
HostChars == Letters \cup Digits \cup {"-", ".", ":", "+", "*"}

\* parseHost fails: an invalid port after the last colon, or a character
\* that must be escaped in a host
parseHostFails(host) ==
    LET i == LastIndexFrom(host, ":", Len(host)) IN
    \/ i # 0 /\ ~validOptionalPort(SubSeq(host, i, Len(host)))
    \/ \E k \in 1..Len(host) : host[k] \notin HostChars

ParseRequestURIFails(rawURL) ==
    IF rawURL = <<>> THEN TRUE
    ELSE IF rawURL = <<"*">> THEN FALSE
    ELSE LET s == getScheme(rawURL, 1) IN
         IF s.err THEN TRUE
         ELSE IF ~HasPrefix(s.rest, <<"/">>)
         THEN s.scheme = <<>>
         ELSE IF s.scheme # <<>> /\ HasPrefix(s.rest, <<"/", "/">>)
         THEN LET after == SubSeq(s.rest, 3, Len(s.rest))
                  slash == IndexFrom(after, "/", 1)
                  authority == IF slash = 0 THEN after
                               ELSE SubSeq(after, 1, slash - 1)
              IN parseHostFails(authority)
         ELSE FALSE

\* faulty variant: a collector id holding "${" is accepted
TargetAllocatorValidate_NoTemplateCheck(ta) ==
    IF ParseRequestURIFails(ta.Endpoint) THEN ErrEndpoint(ta.Endpoint)
    ELSE IF ta.CollectorID = <<>> THEN ErrCollectorID
    ELSE NoError

\* (*TargetAllocator).Validate
TargetAllocatorValidate(ta) ==
    IF ParseRequestURIFails(ta.Endpoint) THEN ErrEndpoint(ta.Endpoint)
    ELSE IF ta.CollectorID = <<>> \/ Contains(ta.CollectorID, <<"$", "{">>)
    THEN ErrCollectorID
    ELSE NoError

(***************************************************************************)
(* Decoding: the confmap string map, yaml.Marshal, yaml.UnmarshalStrict    *)
(* into the Prometheus types, and the two Unmarshal methods.               *)
(***************************************************************************)
\* the keys a string map of the model may hold
Keys == {"bogus", "refresh_interval", "rule_files", "scrape_configs", "url"}

\* the keys in the order yaml.Marshal writes a map (sorted)
KeyOrder == <<"bogus", "refresh_interval", "rule_files", "scrape_configs", "url">>

Absent == [kind |-> "absent", v |-> <<>>]

Scalar(x) == [kind |-> "scalar", v |-> <<x>>]

List(l) == [kind |-> "list", v |-> l]

\* a value whose MarshalYAML returns an error
FailingMarshaler == [kind |-> "failing_marshaler", v |-> <<>>]

\* len(cfgMap)
MapLen(m) == Cardinality({k \in Keys : m[k] # Absent})

EmptyTLS == [CertFile |-> "", KeyFile |-> ""]

\* promconfig.Config, the fields the receiver reads
MkProm(rw, rr, rf, arc, amc, scs) ==
    [RemoteWriteConfigs |-> rw,
     RemoteReadConfigs |-> rr,
     RuleFiles |-> rf,
     AlertingConfig |-> [AlertRelabelConfigs |-> arc, AlertmanagerConfigs |-> amc],
     ScrapeConfigs |-> scs]

\* the zero value of PromConfig
ZeroPromConfig == MkProm(<<>>, <<>>, <<>>, <<>>, <<>>, <<>>)

\* the zero value of PromHTTPSDConfig
ZeroSDConfig == [URL |-> "", RefreshInterval |-> "0s"]

\* promHTTP.DefaultSDConfig
DefaultSDConfig == [URL |-> "", RefreshInterval |-> "60s"]

Placeholder == "http://placeholder"

\* yaml.Marshal of a string map: the document's key/value lines, or the error
yamlMarshal(in) ==
    IF \E k \in Keys : in[k].kind = "failing_marshaler"
    THEN [err |-> <<"yaml: error calling MarshalYAML">>, doc |-> <<>>]
    ELSE LET ks == SelectSeq(KeyOrder, LAMBDA k : in[k] # Absent) IN
         [err |-> NoError,
          doc |-> [i \in 1..Len(ks) |-> [key |-> ks[i], value |-> in[ks[i]]]]]

\* model.ParseDuration accepts
ValidDuration(x) == x \in {"30s", "60s", "5m"}

\* url.Parse(c.URL).Scheme for the URLs of the model
URLScheme(u) ==
    CASE u = "ftp://discovery.example/targets" -> "ftp"
      [] u = "" -> ""
      [] OTHER -> "http"

\* url.Parse(c.URL).Host for the URLs of the model
URLHost(u) ==
    CASE u = "http://placeholder" -> "placeholder"
      [] u = "http:///targets" -> ""
      [] u = "" -> ""
      [] OTHER -> "discovery.example"

\* the strict decode of the document's lines into promHTTP.SDConfig's fields
RECURSIVE decodeSDFrom(_, _, _, _)
decodeSDFrom(doc, i, out, errs) ==
    IF i > Len(doc) THEN [out |-> out, errs |-> errs]
    ELSE LET k == doc[i].key
             val == doc[i].value
         IN IF k = "url"
            THEN IF val.kind = "scalar"
                 THEN decodeSDFrom(doc, i + 1, [out EXCEPT !.URL = val.v[1]], errs)
                 ELSE decodeSDFrom(doc, i + 1, out,
                                   errs \o <<"cannot unmarshal into string">>)
            ELSE IF k = "refresh_interval"
            THEN IF val.kind = "scalar" /\ ValidDuration(val.v[1])
                 THEN decodeSDFrom(doc, i + 1,
                                   [out EXCEPT !.RefreshInterval = val.v[1]], errs)
                 ELSE decodeSDFrom(doc, i + 1, out,
                                   errs \o <<"not a valid duration string">>)
            ELSE decodeSDFrom(doc, i + 1, out,
                              errs \o <<"field", k, "not found in type http.plain">>)

\* yaml.UnmarshalStrict into *promHTTP.SDConfig, whose UnmarshalYAML resets
\* the value to its default, decodes, and then checks the URL
unmarshalStrictSD(doc) ==
    LET d == decodeSDFrom(doc, 1, DefaultSDConfig, <<>>) IN
    IF d.errs # <<>>
    THEN [err |-> <<"yaml: unmarshal errors:">> \o d.errs, out |-> d.out]
    ELSE IF d.out.URL = ""
    THEN [err |-> <<"URL is missing">>, out |-> d.out]
    ELSE IF URLScheme(d.out.URL) \notin {"http", "https"}
    THEN [err |-> <<"URL scheme must be 'http' or 'https'">>, out |-> d.out]
    ELSE IF URLHost(d.out.URL) = ""
    THEN [err |-> <<"host is missing in URL">>, out |-> d.out]
    ELSE [err |-> NoError, out |-> d.out]

\* a scrape job as promconfig decodes it from its name alone
DefaultJob(name) ==
    [JobName |-> name,
     HTTPClientConfig |-> [Authorization |-> <<>>, TLSConfig |-> EmptyTLS],
     ServiceDiscoveryConfigs |-> <<>>]

\* the strict decode of the document's lines into promconfig.Config's fields
RECURSIVE decodePromFrom(_, _, _, _)
decodePromFrom(doc, i, out, errs) ==
    IF i > Len(doc) THEN [out |-> out, errs |-> errs]
    ELSE LET k == doc[i].key
             val == doc[i].value
         IN IF k = "scrape_configs"
            THEN IF val.kind = "list"
                 THEN decodePromFrom(doc, i + 1,
                        [out EXCEPT !.ScrapeConfigs =
                            [n \in 1..Len(val.v) |-> DefaultJob(val.v[n])]], errs)
                 ELSE decodePromFrom(doc, i + 1, out,
                                     errs \o <<"cannot unmarshal into []*config.ScrapeConfig">>)
            ELSE IF k = "rule_files"
            THEN IF val.kind = "list"
                 THEN decodePromFrom(doc, i + 1, [out EXCEPT !.RuleFiles = val.v], errs)
                 ELSE decodePromFrom(doc, i + 1, out,
                                     errs \o <<"cannot unmarshal into []string">>)
            ELSE decodePromFrom(doc, i + 1, out,
                                errs \o <<"field", k, "not found in type config.plain">>)

\* yaml.UnmarshalStrict into *promconfig.Config, whose UnmarshalYAML resets
\* the value to its default, decodes, and rejects a repeated job name
unmarshalStrictProm(doc) ==
    LET d == decodePromFrom(doc, 1, ZeroPromConfig, <<>>)
        scs == d.out.ScrapeConfigs
    IN IF d.errs # <<>>
       THEN [err |-> <<"yaml: unmarshal errors:">> \o d.errs, out |-> d.out]
       ELSE IF \E a, b \in 1..Len(scs) : a # b /\ scs[a].JobName = scs[b].JobName
       THEN [err |-> <<"found multiple scrape configs with job name">>, out |-> d.out]
       ELSE [err |-> NoError, out |-> d.out]

\* unmarshalYAML(in, out), out being a *promconfig.Config ("PromConfig") or a
\* *promHTTP.SDConfig ("PromHTTPSDConfig"): the error, the value out points
\* to afterwards, and the one invocation it is
unmarshalYAML(in, kind, out) ==
    LET y == yamlMarshal(in) IN
    IF y.err # NoError
    THEN [err |-> <<"prometheus receiver: failed to marshal config to yaml:">> \o y.err,
          out |-> out, yaml |-> 1]
    ELSE LET d == IF kind = "PromConfig" THEN unmarshalStrictProm(y.doc)
                  ELSE unmarshalStrictSD(y.doc)
         IN IF d.err # NoError
            THEN [err |-> <<"prometheus receiver: failed to unmarshal yaml to prometheus config object:">>
                          \o d.err,
                  out |-> d.out, yaml |-> 1]
            ELSE [err |-> NoError, out |-> d.out, yaml |-> 1]

\* (*PromConfig).Unmarshal
PromConfigUnmarshal(cfgMap, out) ==
    IF MapLen(cfgMap) = 0 THEN [err |-> NoError, out |-> out, yaml |-> 0]
    ELSE unmarshalYAML(cfgMap, "PromConfig", out)

\* faulty variant: the URL is left as the map gives it
PromHTTPSDConfigUnmarshal_NoPlaceholder(cfgMap, out) ==
    IF MapLen(cfgMap) = 0 THEN [err |-> NoError, out |-> out, yaml |-> 0]
    ELSE unmarshalYAML(cfgMap, "PromHTTPSDConfig", out)

\* faulty variant: the placeholder is set before the map is tested for emptiness
PromHTTPSDConfigUnmarshal_PlaceholderFirst(cfgMap, out) ==
    LET withURL == [cfgMap EXCEPT !["url"] = Scalar(Placeholder)] IN
    IF MapLen(withURL) = 0 THEN [err |-> NoError, out |-> out, yaml |-> 0]
    ELSE unmarshalYAML(withURL, "PromHTTPSDConfig", out)

\* (*PromHTTPSDConfig).Unmarshal
PromHTTPSDConfigUnmarshal(cfgMap, out) ==
    IF MapLen(cfgMap) = 0 THEN [err |-> NoError, out |-> out, yaml |-> 0]
    ELSE unmarshalYAML([cfgMap EXCEPT !["url"] = Scalar(Placeholder)],
                       "PromHTTPSDConfig", out)

(***************************************************************************)
(* The inputs: filesystems, scrape configurations, target allocators and   *)
(* string maps.                                                            *)
(***************************************************************************)
\* the file paths a configuration may name
Files == {"/certs/a.pem", "/certs/b.pem"}

\* the discovery variants: only the first is *kubernetes.SDConfig; the other
\* also carries an HTTP client configuration with TLS paths
Kinds == {"kubernetes", "consul"}

JobNames == <<"job1", "job2", "job3", "job4", "job5", "job6">>

\* the shapes of a job list with n entries in all (jobs plus discovery
\* entries): per job, whether it has an authorization block, and the
\* variants of its discovery entries
RECURSIVE ShapesOfSize(_)
ShapesOfSize(n) ==
    IF n = 0 THEN {<<>>}
    ELSE UNION {
           {<<[auth |-> a, sds |-> ks]>> \o rest :
              a \in BOOLEAN, ks \in [1..k -> Kinds], rest \in ShapesOfSize(n - 1 - k)} :
           k \in 0..(n - 1)}

ShapesUpTo(n) == UNION {ShapesOfSize(k) : k \in 0..n}

\* the path fields of a shape: job j's credentials file, certificate and
\* key (s = 0), and the certificate and key of its discovery entry s
Slots(shape) ==
    {[j |-> j, s |-> 0, f |-> "cred"] : j \in {i \in 1..Len(shape) : shape[i].auth}}
    \cup {[j |-> j, s |-> 0, f |-> f] : j \in 1..Len(shape), f \in {"cert", "key"}}
    \cup UNION {{[j |-> j, s |-> s, f |-> f] :
                   s \in 1..Len(shape[j].sds), f \in {"cert", "key"}} :
                j \in 1..Len(shape)}

NoSlot == [j |-> 0, s |-> 0, f |-> "none"]

\* where each file is named: in one field or nowhere, no two in the same
Placements(shape) ==
    {pl \in [Files -> Slots(shape) \cup {NoSlot}] :
        \A f, g \in Files : (f # g /\ pl[f] # NoSlot) => pl[f] # pl[g]}

PathAt(pl, slot) ==
    IF \E f \in Files : pl[f] = slot
    THEN CHOOSE f \in Files : pl[f] = slot
    ELSE ""

TLSAt(pl, j, s) ==
    [CertFile |-> PathAt(pl, [j |-> j, s |-> s, f |-> "cert"]),
     KeyFile |-> PathAt(pl, [j |-> j, s |-> s, f |-> "key"])]

\* the job list of a shape, its path fields filled by a placement
BuildJobs(shape, pl) ==
    [j \in 1..Len(shape) |->
        [JobName |-> JobNames[j],
         HTTPClientConfig |->
            [Authorization |->
                IF shape[j].auth
                THEN <<[CredentialsFile |-> PathAt(pl, [j |-> j, s |-> 0, f |-> "cred"])]>>
                ELSE <<>>,
             TLSConfig |-> TLSAt(pl, j, 0)],
         ServiceDiscoveryConfigs |->
            [s \in 1..Len(shape[j].sds) |->
                [kind |-> shape[j].sds[s],
                 HTTPClientConfig |-> [TLSConfig |-> TLSAt(pl, j, s)]]]]]

JobListsUpTo(n) ==
    UNION {{BuildJobs(shape, pl) : pl \in Placements(shape)} : shape \in ShapesUpTo(n)}

\* a forbidden-feature list: only its length is read
FeatureLists == {[i \in 1..n |-> "x"] : n \in 0..MaxFeatureLen}

\* scrape configurations without forbidden features, over every job list
FilesFamily ==
    {MkProm(<<>>, <<>>, <<>>, <<>>, <<>>, scs) : scs \in JobListsUpTo(MaxEntries)}

\* scrape configurations over every combination of forbidden features, with
\* at most one job
FeaturesFamily ==
    {MkProm(rw, rr, rf, arc, amc, scs) :
        rw \in FeatureLists, rr \in FeatureLists, rf \in FeatureLists,
        arc \in FeatureLists, amc \in FeatureLists, scs \in JobListsUpTo(1)}

\* "http://localhost:8080"
EndpointLocalhost ==
    <<"h", "t", "t", "p", ":", "/", "/", "l", "o", "c", "a", "l", "h", "o", "s", "t",
      ":", "8", "0", "8", "0">>

\* "not a url"
EndpointNotAURL == <<"n", "o", "t", " ", "a", " ", "u", "r", "l">>

\* "h://h:x", "h://h h/", "h://h:8/h h", "1h://h", "*"
ExampleEndpoints ==
    {EndpointLocalhost, EndpointNotAURL,
     <<"h", ":", "/", "/", "h", ":", "x">>,
     <<"h", ":", "/", "/", "h", " ", "h", "/">>,
     <<"h", ":", "/", "/", "h", ":", "8", "/", "h", " ", "h">>,
     <<"1", "h", ":", "/", "/", "h">>,
     <<"*">>}

StringsUpTo(alphabet, n) == UNION {[1..k -> alphabet] : k \in 0..n}

Endpoints == StringsUpTo({"h", ":", "/", " "}, MaxEndpointLen) \cup ExampleEndpoints

\* "abc"
IDAbc == <<"a", "b", "c">>

\* "${POD_NAME}"
IDPodName == <<"$", "{", "P", "O", "D", "_", "N", "A", "M", "E", "}">>

CollectorIDs == StringsUpTo({"a", "$", "{"}, MaxIDLen) \cup {IDAbc, IDPodName}

MkTargetAllocator(endpoint, id) == [Endpoint |-> endpoint, CollectorID |-> id]

MkConfig(prom, ta) == [PrometheusConfig |-> prom, TargetAllocator |-> ta]

\* a few scrape configurations and target allocators, for the behaviours
\* that call every Validate method
SmallProms ==
    {c \in FeaturesFamily :
        /\ Len(c.RemoteReadConfigs) = 0 /\ Len(c.RuleFiles) = 0
        /\ Len(c.AlertingConfig.AlertRelabelConfigs) = 0
        /\ Len(c.AlertingConfig.AlertmanagerConfigs) = 0
        /\ Len(c.RemoteWriteConfigs) <= 1
        /\ \A j \in 1..Len(c.ScrapeConfigs) :
              /\ c.ScrapeConfigs[j].HTTPClientConfig.Authorization # <<>>
              /\ c.ScrapeConfigs[j].HTTPClientConfig.TLSConfig = EmptyTLS}

SmallTargetAllocators ==
    {MkTargetAllocator(e, i) :
        e \in {EndpointLocalhost, EndpointNotAURL}, i \in {IDAbc, IDPodName, <<>>}}

Pointers(S) == {<<>>} \cup {<<x>> : x \in S}

EmptyConf == [k \in Keys |-> Absent]

\* the string maps handed to the Unmarshal methods
Confs ==
    {[k \in Keys |->
        CASE k = "url" -> u
          [] k = "refresh_interval" -> r
          [] k = "scrape_configs" -> sc
          [] k = "rule_files" -> rf
          [] OTHER -> b] :
        u \in {Absent, Scalar(""), Scalar("http://discovery.example/targets"),
               Scalar("ftp://discovery.example/targets"), Scalar("http:///targets")},
        r \in {Absent, Scalar("30s"), Scalar("soon")},
        sc \in {Absent, List(<<>>), List(<<"job1">>), List(<<"job1", "job1">>)},
        rf \in {Absent, List(<<"rules.yml">>)},
        b \in {Absent, Scalar("x"), FailingMarshaler}}

ZeroTarget == [PromConfig |-> ZeroPromConfig, HTTPSDConfig |-> ZeroSDConfig]

(***************************************************************************)
(* The operations.                                                         *)
(***************************************************************************)
Call(op, r) == [op |-> op, fs |-> fs, err |-> r.err, stats |-> r.stats]

\* a call of (*Config).Validate
ValidateConfig ==
    /\ Len(calls) < MaxCalls
    /\ calls' = Append(calls, Call("Config.Validate",
                                   [err |-> ConfigValidate(cfg), stats |-> <<>>]))
    /\ UNCHANGED <<cfg, fs, conf, target, ucall>>

\* a call of (*TargetAllocator).Validate, on a non-nil target allocator
ValidateTargetAllocator ==
    /\ Len(calls) < MaxCalls
    /\ cfg.TargetAllocator # <<>>
    /\ calls' = Append(calls, Call("TargetAllocator.Validate",
                                   [err |-> TargetAllocatorValidate(cfg.TargetAllocator[1]),
                                    stats |-> <<>>]))
    /\ UNCHANGED <<cfg, fs, conf, target, ucall>>

\* faulty variant: the call empties the remote-write list of the configuration
ValidateProm_ClearsFeatures ==
    /\ Len(calls) < MaxCalls
    /\ cfg.PrometheusConfig # <<>>
    /\ calls' = Append(calls, Call("PromConfig.Validate",
                                   PromConfigValidate(cfg.PrometheusConfig[1], fs)))
    /\ cfg' = [cfg EXCEPT !.PrometheusConfig =
                 <<[cfg.PrometheusConfig[1] EXCEPT !.RemoteWriteConfigs = <<>>]>>]
    /\ UNCHANGED <<fs, conf, target, ucall>>

\* a call of (*PromConfig).Validate, on a non-nil scrape configuration
ValidateProm ==
    /\ Len(calls) < MaxCalls
    /\ cfg.PrometheusConfig # <<>>
    /\ calls' = Append(calls, Call("PromConfig.Validate",
                                   PromConfigValidate(cfg.PrometheusConfig[1], fs)))
    /\ UNCHANGED <<cfg, fs, conf, target, ucall>>

\* the environment creates a file
CreateFile ==
    /\ \E f \in Files \ fs : fs' = fs \cup {f}
    /\ UNCHANGED <<cfg, calls, conf, target, ucall>>

\* the environment removes a file
RemoveFile ==
    /\ \E f \in fs : fs' = fs \ {f}
    /\ UNCHANGED <<cfg, calls, conf, target, ucall>>

\* a call of (*PromConfig).Unmarshal on the string map
UnmarshalProm ==
    /\ ucall = <<>>
    /\ LET r == PromConfigUnmarshal(conf, target.PromConfig) IN
       /\ target' = [target EXCEPT !.PromConfig = r.out]
       /\ ucall' = <<[op |-> "PromConfig.Unmarshal", err |-> r.err, yaml |-> r.yaml]>>
    /\ UNCHANGED <<cfg, fs, calls, conf>>

\* a call of (*PromHTTPSDConfig).Unmarshal on the string map
UnmarshalHTTPSD ==
    /\ ucall = <<>>
    /\ LET r == PromHTTPSDConfigUnmarshal(conf, target.HTTPSDConfig) IN
       /\ target' = [target EXCEPT !.HTTPSDConfig = r.out]
       /\ ucall' = <<[op |-> "PromHTTPSDConfig.Unmarshal", err |-> r.err, yaml |-> r.yaml]>>
    /\ UNCHANGED <<cfg, fs, calls, conf>>

(***************************************************************************)
(* The specifications.                                                     *)
(***************************************************************************)
NothingDecoded == conf = EmptyConf /\ target = ZeroTarget /\ ucall = <<>>

\* every Validate method, on a small set of configurations, the filesystem
\* changing under them
Init ==
    /\ cfg \in {MkConfig(p, t) :
                  p \in Pointers(SmallProms), t \in Pointers(SmallTargetAllocators)}
    /\ fs \in SUBSET Files
    /\ calls = <<>>
    /\ NothingDecoded

Next ==
    \/ ValidateConfig
    \/ ValidateTargetAllocator
    \/ ValidateProm
    \/ CreateFile
    \/ RemoveFile

Spec == Init /\ [][Next]_vars

\* (*PromConfig).Validate over the scrape configurations
InitProm ==
    /\ cfg \in {MkConfig(<<p>>, <<>>) : p \in FilesFamily \cup FeaturesFamily}
    /\ fs \in SUBSET Files
    /\ calls = <<>>
    /\ NothingDecoded

\* one call: a second call on the same inputs is the subject of Spec
NextProm == calls = <<>> /\ ValidateProm

SpecProm == InitProm /\ [][NextProm]_vars

\* (*TargetAllocator).Validate over the endpoints and collector ids
InitTargetAllocator ==
    /\ cfg \in {MkConfig(<<>>, <<MkTargetAllocator(e, i)>>) :
                  e \in Endpoints, i \in CollectorIDs}
    /\ fs = {}
    /\ calls = <<>>
    /\ NothingDecoded

\* one call
NextTargetAllocator == calls = <<>> /\ ValidateTargetAllocator

SpecTargetAllocator == InitTargetAllocator /\ [][NextTargetAllocator]_vars

\* the Unmarshal methods over the string maps
InitUnmarshal ==
    /\ cfg = MkConfig(<<>>, <<>>)
    /\ fs = {}
    /\ calls = <<>>
    /\ conf \in Confs
    /\ target = ZeroTarget
    /\ ucall = <<>>

NextUnmarshal ==
    \/ UnmarshalProm
    \/ UnmarshalHTTPSD

SpecUnmarshal == InitUnmarshal /\ [][NextUnmarshal]_vars

(***************************************************************************)
(* Vocabulary of the properties.  These definitions state what is          *)
(* expected of a result from the configuration and the filesystem alone.   *)
(***************************************************************************)
CallsOf(op) == {i \in 1..Len(calls) : calls[i].op = op}

\* the path is set and os.Stat fails on it
Missing(path, files) == path # "" /\ path \notin files

\* the error message holds the token
Names(err, token) == \E k \in 1..Len(err) : err[k] = token

HasFeatures(c) ==
    \/ Len(c.RemoteWriteConfigs) # 0
    \/ Len(c.RemoteReadConfigs) # 0
    \/ Len(c.RuleFiles) # 0
    \/ Len(c.AlertingConfig.AlertRelabelConfigs) # 0
    \/ Len(c.AlertingConfig.AlertmanagerConfigs) # 0

TLSChecks(tlsConfig, j, s) ==
    <<[field |-> "cert", path |-> tlsConfig.CertFile, j |-> j, s |-> s],
      [field |-> "key", path |-> tlsConfig.KeyFile, j |-> j, s |-> s]>>

RECURSIVE DiscoveryChecks(_, _, _)
DiscoveryChecks(sds, j, s) ==
    IF s > Len(sds) THEN <<>>
    ELSE (IF sds[s].kind = "kubernetes"
          THEN TLSChecks(sds[s].HTTPClientConfig.TLSConfig, j, s)
          ELSE <<>>)
         \o DiscoveryChecks(sds, j, s + 1)

\* the file checks due for the jobs from j on, flattened in the order job by
\* job: credentials file, certificate, key, then each Kubernetes discovery
\* entry's certificate and key in list order
RECURSIVE DueChecks(_, _)
DueChecks(scs, j) ==
    IF j > Len(scs) THEN <<>>
    ELSE (IF scs[j].HTTPClientConfig.Authorization # <<>>
          THEN <<[field |-> "cred",
                  path |-> scs[j].HTTPClientConfig.Authorization[1].CredentialsFile,
                  j |-> j, s |-> 0]>>
          ELSE <<>>)
         \o TLSChecks(scs[j].HTTPClientConfig.TLSConfig, j, 0)
         \o DiscoveryChecks(scs[j].ServiceDiscoveryConfigs, j, 1)
         \o DueChecks(scs, j + 1)

\* the position of the first due check whose file is missing, 0 if none
FirstMissing(due, files) ==
    IF \E k \in 1..Len(due) : Missing(due[k].path, files)
    THEN CHOOSE k \in 1..Len(due) :
           /\ Missing(due[k].path, files)
           /\ \A i \in 1..(k - 1) : ~Missing(due[i].path, files)
    ELSE 0

\* the message expected for a due check that fails
ExpectedError(check) ==
    LET prefix == CASE check.field = "cred" ->
                         "error checking authorization credentials file"
                    [] check.field = "cert" -> "error checking client cert file"
                    [] check.field = "key" -> "error checking client key file"
    IN <<prefix, "\"", check.path, "\"", ":",
         "stat", check.path, ":", "no such file or directory">>

\* the non-empty paths of the due checks, in order
PathsOf(due) ==
    LET set == SelectSeq(due, LAMBDA d : d.path # "") IN
    [k \in 1..Len(set) |-> set[k].path]

\* the scrape configuration a call of (*PromConfig).Validate was made on
Prom == cfg.PrometheusConfig[1]

Due == DueChecks(Prom.ScrapeConfigs, 1)

(***************************************************************************)
(* C1.  Config.Validate returns the incompleteness error exactly when      *)
(* the scrape configuration is nil or has no scrape job and the target     *)
(* allocator is nil, and no error in every other case, a target allocator  *)
(* with zero scrape jobs included.                                         *)
(***************************************************************************)
NoScrapeJobs ==
    \/ cfg.PrometheusConfig = <<>>
    \/ Len(cfg.PrometheusConfig[1].ScrapeConfigs) = 0

C1_IncompleteIffNoSource ==
    \A i \in CallsOf("Config.Validate") :
        /\ (NoScrapeJobs /\ cfg.TargetAllocator = <<>>) => calls[i].err = ErrIncomplete
        /\ ~(NoScrapeJobs /\ cfg.TargetAllocator = <<>>) => calls[i].err = NoError

\* a target allocator with zero scrape jobs has been validated without error
C1_Witness ==
    \E i \in CallsOf("Config.Validate") :
        /\ cfg.PrometheusConfig # <<>>
        /\ NoScrapeJobs
        /\ cfg.TargetAllocator # <<>>
        /\ calls[i].err = NoError

(***************************************************************************)
(* C2.  If at least one of the five forbidden feature lists is non-empty,  *)
(* PromConfig.Validate fails with the one error that lists the label of    *)
(* every non-empty list and of no empty one, each once, in the order       *)
(* alert_config.alertmanagers, alert_config.relabel_configs, remote_read,  *)
(* remote_write, rule_files.                                               *)
(***************************************************************************)
LabelOrder ==
    <<"alert_config.alertmanagers", "alert_config.relabel_configs",
      "remote_read", "remote_write", "rule_files">>

FeatureList(c, label) ==
    CASE label = "alert_config.alertmanagers" -> c.AlertingConfig.AlertmanagerConfigs
      [] label = "alert_config.relabel_configs" -> c.AlertingConfig.AlertRelabelConfigs
      [] label = "remote_read" -> c.RemoteReadConfigs
      [] label = "remote_write" -> c.RemoteWriteConfigs
      [] label = "rule_files" -> c.RuleFiles

ViolatedLabels(c) == SelectSeq(LabelOrder, LAMBDA l : Len(FeatureList(c, l)) # 0)

C2_UnsupportedFeaturesSorted ==
    \A i \in CallsOf("PromConfig.Validate") :
        HasFeatures(Prom) =>
            calls[i].err = <<"unsupported features:">> \o ViolatedLabels(Prom)

\* a configuration whose violated labels are appended out of order
\* (remote_write first, alert_config.alertmanagers last) has been rejected
C2_Witness ==
    \E i \in CallsOf("PromConfig.Validate") :
        /\ Len(Prom.RemoteWriteConfigs) # 0
        /\ Len(Prom.RuleFiles) # 0
        /\ Len(Prom.AlertingConfig.AlertmanagerConfigs) # 0
        /\ Len(calls[i].err) >= 4
        /\ calls[i].err[2] = "alert_config.alertmanagers"

(***************************************************************************)
(* C3.  As claimed: for a scrape job with an authorization block, when the *)
(* credentials file does not exist PromConfig.Validate fails with an       *)
(* error naming the file path and the job; when it exists or is empty, the *)
(* credentials-file check of that job raises no error.                     *)
(***************************************************************************)
CredentialChecks == {k \in 1..Len(Due) : Due[k].field = "cred"}

IsCredentialsErrorFor(err, path) ==
    /\ Len(err) >= 3
    /\ err[1] = "error checking authorization credentials file"
    /\ err[3] = path

JobCertChecks == {k \in 1..Len(Due) : Due[k].field = "cert" /\ Due[k].s = 0}

\* the check at position k is reached by the call
Reached(k, files) ==
    /\ ~HasFeatures(Prom)
    /\ \A i \in 1..(k - 1) : ~Missing(Due[i].path, files)

C5_Original_CertAndKeyIndependent ==
    \A i \in CallsOf("PromConfig.Validate") : \A k \in JobCertChecks :
        Reached(k, calls[i].fs) =>
            /\ Missing(Due[k].path, calls[i].fs) => calls[i].err = ExpectedError(Due[k])
            /\ Missing(Due[k + 1].path, calls[i].fs) =>
                  calls[i].err = ExpectedError(Due[k + 1])
            /\ Due[k].path = "" => calls[i].err # ExpectedError(Due[k])
            /\ Due[k + 1].path = "" => calls[i].err # ExpectedError(Due[k + 1])

(***************************************************************************)
(* C5, amended.  In the TLS check of a scrape job an empty certificate or  *)
(* key path is never an error and is never stat-checked; a missing         *)
(* certificate file yields the cert-specific error whatever the state of   *)
(* the key path, and the key is then not stat-checked; a missing key file  *)
(* yields the key-specific error when the certificate path is empty or     *)
(* exists.                                                                 *)
(***************************************************************************)
C5_CertCheckedBeforeKey ==
    \A i \in CallsOf("PromConfig.Validate") :
        /\ \A n \in 1..Len(calls[i].stats) : calls[i].stats[n] # ""
        /\ \A k \in JobCertChecks :
              Reached(k, calls[i].fs) =>
                /\ Missing(Due[k].path, calls[i].fs) =>
                      /\ calls[i].err = ExpectedError(Due[k])
                      /\ Due[k + 1].path # "" =>
                            \A n \in 1..Len(calls[i].stats) :
                                calls[i].stats[n] # Due[k + 1].path
                /\ ( /\ ~Missing(Due[k].path, calls[i].fs)
                     /\ Missing(Due[k + 1].path, calls[i].fs) )
                   => calls[i].err = ExpectedError(Due[k + 1])
                /\ Due[k].path = "" => calls[i].err # ExpectedError(Due[k])
                /\ Due[k + 1].path = "" => calls[i].err # ExpectedError(Due[k + 1])

\* a job's certificate and key are both missing, its TLS check is reached,
\* and the call has returned the cert-specific error
C5_Witness ==
    \E i \in CallsOf("PromConfig.Validate") : \E k \in JobCertChecks :
        /\ Reached(k, calls[i].fs)
        /\ Missing(Due[k].path, calls[i].fs)
        /\ Missing(Due[k + 1].path, calls[i].fs)
        /\ calls[i].err = ExpectedError(Due[k])

(***************************************************************************)
(* C6.  For every scrape job and every entry of its discovery list,        *)
(* PromConfig.Validate applies the certificate/key existence check to the  *)
(* entry's TLS configuration when the entry is the Kubernetes variant: a   *)
(* missing file there fails the validation, with the cert- or key-specific *)
(* error when it is the first check to fail.  It never fails because of a  *)
(* path carried by an entry of another variant: such a path is neither     *)
(* stat-checked nor named by the error.                                    *)
(***************************************************************************)
KubernetesChecks == {k \in 1..Len(Due) : Due[k].s > 0}

\* the non-empty paths of the discovery entries of other variants
OtherVariantPaths ==
    UNION {
      UNION {
        {sd.HTTPClientConfig.TLSConfig.CertFile, sd.HTTPClientConfig.TLSConfig.KeyFile} :
        sd \in {Prom.ScrapeConfigs[j].ServiceDiscoveryConfigs[s] :
                  s \in {x \in 1..Len(Prom.ScrapeConfigs[j].ServiceDiscoveryConfigs) :
                           Prom.ScrapeConfigs[j].ServiceDiscoveryConfigs[x].kind # "kubernetes"}}} :
      j \in 1..Len(Prom.ScrapeConfigs)} \ {""}

C6_OnlyKubernetesDiscoveryChecked ==
    \A i \in CallsOf("PromConfig.Validate") :
        /\ \A k \in KubernetesChecks :
              /\ Missing(Due[k].path, calls[i].fs) => calls[i].err # NoError
              /\ (Reached(k, calls[i].fs) /\ Missing(Due[k].path, calls[i].fs))
                    => calls[i].err = ExpectedError(Due[k])
              /\ (Reached(k, calls[i].fs) /\ Due[k].path \in calls[i].fs)
                    => Names(calls[i].stats, Due[k].path)
        /\ \A path \in OtherVariantPaths :
              /\ ~Names(calls[i].err, path)
              /\ ~Names(calls[i].stats, path)
        /\ (\A k \in 1..Len(Due) : ~Missing(Due[k].path, calls[i].fs)) /\ ~HasFeatures(Prom)
              => calls[i].err = NoError

\* a job lists an entry of another variant whose certificate is missing and
\* then a Kubernetes entry whose key is missing: the call has returned the
\* key-specific error of the Kubernetes entry
C6_Witness ==
    \E i \in CallsOf("PromConfig.Validate") : \E k \in KubernetesChecks :
        /\ Due[k].field = "key"
        /\ Due[k].s = 2
        /\ Missing(Due[k].path, calls[i].fs)
        /\ \E path \in OtherVariantPaths : Missing(path, calls[i].fs)
        /\ calls[i].err = ExpectedError(Due[k])

(***************************************************************************)
(* C10.  PromConfig.Validate checks in a fixed order and reports the first *)
(* failure only.  With a forbidden feature list non-empty the result is    *)
(* the unsupported-features error and no file is stat-checked, whatever    *)
(* files are missing.  Otherwise the result is the error of the first      *)
(* missing file in the order job by job, and within a job credentials      *)
(* file, certificate, key, then each Kubernetes discovery entry in list    *)
(* order; the files after it are not stat-checked.                         *)
(***************************************************************************)
C10_FixedOrderFirstFailure ==
    \A i \in CallsOf("PromConfig.Validate") :
        LET m == FirstMissing(Due, calls[i].fs) IN
        /\ HasFeatures(Prom) =>
              /\ calls[i].err # NoError
              /\ calls[i].err[1] = "unsupported features:"
              /\ calls[i].stats = <<>>
        /\ (~HasFeatures(Prom) /\ m = 0) =>
              /\ calls[i].err = NoError
              /\ calls[i].stats = PathsOf(Due)
        /\ (~HasFeatures(Prom) /\ m > 0) =>
              /\ calls[i].err = ExpectedError(Due[m])
              /\ calls[i].stats = PathsOf(SubSeq(Due, 1, m))

\* the first job's key and the second job's credentials file are both
\* missing: the call has returned the first job's key error and has not
\* stat-checked the second job's file
C10_Witness ==
    \E i \in CallsOf("PromConfig.Validate") : \E m, n \in 1..Len(Due) :
        /\ ~HasFeatures(Prom)
        /\ m = FirstMissing(Due, calls[i].fs)
        /\ Due[m].field = "key" /\ Due[m].j = 1
        /\ Due[n].field = "cred" /\ Due[n].j = 2
        /\ Missing(Due[n].path, calls[i].fs)
        /\ calls[i].err = ExpectedError(Due[m])
        /\ ~Names(calls[i].stats, Due[n].path)

(***************************************************************************)
(* C4.  TargetAllocator.Validate fails when the endpoint is not a valid    *)
(* absolute request URI, fails when the collector id is empty or contains  *)
(* "${", and passes in every other case.  Endpoint "not a url" fails;      *)
(* endpoint "http://localhost:8080" with collector id "abc" passes;        *)
(* collector id "${POD_NAME}" fails; collector id "" fails.                *)
(***************************************************************************)
TA == cfg.TargetAllocator[1]

HasTemplateToken(id) ==
    \E k \in 1..(Len(id) - 1) : id[k] = "$" /\ id[k + 1] = "{"

C4_TargetAllocatorValidate ==
    \A i \in CallsOf("TargetAllocator.Validate") :
        /\ calls[i].err # NoError <=>
              \/ ParseRequestURIFails(TA.Endpoint)
              \/ TA.CollectorID = <<>>
              \/ HasTemplateToken(TA.CollectorID)
        /\ TA.Endpoint = EndpointNotAURL => calls[i].err # NoError
        /\ (TA.Endpoint = EndpointLocalhost /\ TA.CollectorID = IDAbc)
              => calls[i].err = NoError
        /\ TA.CollectorID = IDPodName => calls[i].err # NoError
        /\ TA.CollectorID = <<>> => calls[i].err # NoError

\* endpoint "http://localhost:8080" with the unresolved collector id
\* "${POD_NAME}" has been rejected for its collector id
C4_Witness ==
    \E i \in CallsOf("TargetAllocator.Validate") :
        /\ TA.Endpoint = EndpointLocalhost
        /\ TA.CollectorID = IDPodName
        /\ calls[i].err = ErrCollectorID

(***************************************************************************)
(* C7.  For a non-empty HTTP-discovery string map,                         *)
(* PromHTTPSDConfig.Unmarshal sets the URL to the placeholder before       *)
(* decoding: the call never fails for a missing URL, a block without a URL *)
(* and with known, well-formed fields decodes without error, and the       *)
(* decoded URL is "http://placeholder" whether or not the map held a URL.  *)
(***************************************************************************)
SDCalled == ucall # <<>> /\ ucall[1].op = "PromHTTPSDConfig.Unmarshal"

\* but for its URL, the map holds only fields of the HTTP discovery block,
\* and they are well-formed
WellFormedSDBlock ==
    /\ conf["bogus"] = Absent
    /\ conf["scrape_configs"] = Absent
    /\ conf["rule_files"] = Absent
    /\ conf["refresh_interval"] \in {Absent, Scalar("30s")}

C7_PlaceholderURL ==
    (SDCalled /\ MapLen(conf) # 0) =>
        /\ ~Names(ucall[1].err, "URL is missing")
        /\ WellFormedSDBlock => ucall[1].err = NoError
        /\ ucall[1].err = NoError => target.HTTPSDConfig.URL = "http://placeholder"

\* a block with a refresh interval and no URL has been decoded, and its
\* URL is the placeholder
C7_Witness ==
    /\ SDCalled
    /\ conf["url"] = Absent
    /\ conf["refresh_interval"] = Scalar("30s")
    /\ ucall[1].err = NoError
    /\ target.HTTPSDConfig.URL = "http://placeholder"

(***************************************************************************)
(* C8.  On an empty string map PromConfig.Unmarshal and                    *)
(* PromHTTPSDConfig.Unmarshal succeed without invoking unmarshalYAML and   *)
(* leave the target at its zero value: the HTTP-discovery adapter injects  *)
(* no placeholder URL.                                                     *)
(***************************************************************************)
C8_EmptyMapLeavesZeroValue ==
    (ucall # <<>> /\ MapLen(conf) = 0) =>
        /\ ucall[1].err = NoError
        /\ ucall[1].yaml = 0
        /\ target = ZeroTarget
        /\ target.HTTPSDConfig.URL = ""

\* PromHTTPSDConfig.Unmarshal has returned on the empty map
C8_Witness ==
    /\ SDCalled
    /\ conf = EmptyConf
    /\ ucall[1].err = NoError
    /\ target.HTTPSDConfig.URL = ""

====
